---- MODULE Spec2Model ----
(***************************************************************************)
(* mbf_anysnake: the build orchestration of Dockerator.  An invocation     *)
(* constructs a Dockerator from the configuration and calls ensure(),      *)
(* which walks the strategies (providers) in order.  The file system, the  *)
(* container engine's image list and the log files persist between         *)
(* invocations; containers, the engine and downloads are nondeterministic. *)
(***************************************************************************)
EXTENDS Integers, Sequences, FiniteSets, TLC

VARIABLES
    config,       \* the configuration the current Dockerator was built from
    fs,           \* directory path -> set of files ({} = path does not exist)
    images,       \* tags in the container engine's local image list
    logs,         \* log files written so far
    pc,           \* position of the invocation: idle/ensure/build/done/raised/crashed
    idx,          \* 1-based position of Dockerator.ensure's loop in strategies
    bpc,          \* position inside Dockerator.build
    purged,       \* build(): the stale build_dir branch (rmtree) was taken
    calls,        \* providers whose ensure() was called by this Dockerator.ensure()
    rets,         \* the values those calls returned
    events,       \* what this Dockerator.ensure() did: <<provider, kind>>
    err,          \* the exception that ended this Dockerator.ensure(), if any
    runs,         \* number of invocations so far
    prevConfig,   \* configuration of the previous invocation
    prevOutcome   \* how the previous invocation ended

VARIABLES
    run_call,     \* Dockerator.run: the call's arguments, the strategies' contributions
    run_result    \* Dockerator.run: the container's mounts and environment, or the raise

vars == <<config, fs, images, logs, pc, idx, bpc, purged, calls, rets, events,
          err, runs, prevConfig, prevOutcome>>
runVars == <<run_call, run_result>>

VARIABLES
    parsed_packages,  \* annotate_packages: the caller's dict of entries
    annotated         \* annotate_packages: what the call returned, or the raise

pkgVars == <<parsed_packages, annotated>>

VARIABLES
    ctor_call,    \* Dockerator(...): the versions given, the release information
    dockerator    \* Dockerator(...): the object constructed, or the raise

ctorVars == <<ctor_call, dockerator>>

VARIABLES
    cache_files,  \* release information: cache file -> text (<<>> = no such file)
    requests,     \* release information: requests sent to the remote sources
    resolves,     \* release information: calls so far
    release_ret   \* release information: the last call and what it returned

relVars == <<cache_files, requests, resolves, release_ret>>

VARIABLES
    dl_files,     \* download_file: the files at filename and filename + "_temp"
    dl_pc,        \* download_file: idle/writing/returned/raised
    dl_response,  \* download_file: the response being read
    dl_calls      \* download_file: calls so far

dlVars == <<dl_files, dl_pc, dl_response, dl_calls>>

VARIABLES
    start_at,     \* get_next_free_port: the argument
    in_use,       \* get_next_free_port: the ports bind() fails on
    port,         \* get_next_free_port: the candidate
    try_next,     \* get_next_free_port: the loop flag
    port_pc,      \* get_next_free_port: called/returned/raised
    probed        \* get_next_free_port: the ports bind() was tried on, in order

portVars == <<start_at, in_use, port, try_next, port_pc, probed>>

VARIABLES
    python_version,  \* major_python_version: self.python_version
    major_version    \* major_python_version: what the property returned, or the raise

pyVars == <<python_version, major_version>>

\* the variables of the operations a specification does not exercise
NotCalled == "not called"
RunIdle == run_call = NotCalled /\ run_result = NotCalled
PkgIdle == parsed_packages = NotCalled /\ annotated = NotCalled
CtorIdle == ctor_call = NotCalled /\ dockerator = NotCalled
RelIdle ==
    /\ cache_files = NotCalled /\ requests = NotCalled
    /\ resolves = NotCalled /\ release_ret = NotCalled
DlIdle ==
    /\ dl_files = NotCalled /\ dl_pc = NotCalled
    /\ dl_response = NotCalled /\ dl_calls = NotCalled
PortIdle ==
    /\ start_at = NotCalled /\ in_use = NotCalled /\ port = NotCalled
    /\ try_next = NotCalled /\ port_pc = NotCalled /\ probed = NotCalled
PyIdle == python_version = NotCalled /\ major_version = NotCalled

\* ------------------------------------------------------------------ bounds
MaxRuns == 2
\* calls of bioconductor_relase_information
MaxResolves == 3
\* calls of download_file for one filename
MaxDownloads == 2

\* ------------------------------------------------------------- vocabulary
None == "None"

File(n, t) == [name |-> n, text |-> t]
Dot == File(".", "")                  \* present in every existing directory
EmptyDir == {Dot}
Exists(d) == Dot \in d
HasFile(d, n) == \E f \in d : f.name = n
Text(d, n) == (CHOOSE f \in d : f.name = n).text

Images == {[name |-> "anysnake", tag |-> "18.04"],
           [name |-> "ubuntu", tag |-> "18.04"]}
CranModes == {"full", "minimal"}
Whitelists == {<<>>, <<"limma">>}
RVersions == {None, "3.5.1"}
BiocVersions == {None, "3.8"}

Configs == [docker_image : Images, cran_mode : CranModes,
            bioconductor_whitelist : Whitelists,
            r_version : RVersions, bioconductor_version : BiocVersions]

\* docker_image as the string the configuration gives
DockerImage(c) == c.docker_image.name \o ":" \o c.docker_image.tag
\* docker_image[: docker_image.rfind(":")]
ImageFamily(c) == c.docker_image.name
\* image families with docker_images/<family>/build.sh in the package
RecipeFamilies == {"anysnake"}
\* storage_path / docker_image.replace(":", "-")
StorageRoot(c) == c.docker_image.name \o "-" \o c.docker_image.tag

\* ------------------------------------------------------------- strategies
\* mutant: DockFill_Rpy2 is appended before DockFill_R
Strategies_Rpy2BeforeR(c) ==
    LET base == <<"DockFill_Docker", "DockFill_Python",
                  "DockFill_CodeVenv", "DockFill_GlobalVenv">>
        dfr == c.r_version # None \/ c.bioconductor_version # None
        withR == IF dfr
                 THEN base \o <<"DockFill_Rpy2", "DockFill_R", "DockFill_CRAN">>
                 ELSE base
    IN  IF dfr /\ c.bioconductor_version # None
        THEN withR \o <<"DockFill_Bioconductor">>
        ELSE withR
Strategies(c) ==
    LET base == <<"DockFill_Docker", "DockFill_Python",
                  "DockFill_CodeVenv", "DockFill_GlobalVenv">>
        dfr == c.r_version # None \/ c.bioconductor_version # None
        withR == IF dfr
                 THEN base \o <<"DockFill_R", "DockFill_Rpy2", "DockFill_CRAN">>
                 ELSE base
    IN  IF dfr /\ c.bioconductor_version # None
        THEN withR \o <<"DockFill_Bioconductor">>
        ELSE withR

Providers == {"DockFill_Docker", "DockFill_Python", "DockFill_CodeVenv",
              "DockFill_GlobalVenv", "DockFill_R", "DockFill_Rpy2",
              "DockFill_CRAN", "DockFill_Bioconductor"}
\* providers whose ensure() is a call of Dockerator.build
BuildProviders == {"DockFill_Python", "DockFill_R", "DockFill_Rpy2", "DockFill_CRAN"}
VenvProviders == {"DockFill_CodeVenv", "DockFill_GlobalVenv"}
\* providers that hand a version_check to build()
VersionChecked == {"DockFill_Python", "DockFill_R"}

Position(c, p) == CHOOSE i \in 1..Len(Strategies(c)) : Strategies(c)[i] = p
Current == Strategies(config)[idx]

\* ------------------------------------------------------------------ paths
TargetDir(c, p) == <<StorageRoot(c), p>>
\* target_dir.with_name(target_dir.name + "_temp")
BuildDir(t) == <<t[1], t[2] \o "_temp">>
CheckFile == "check"
LogName(p) == "log_" \o p
LogPath(c, p) == <<StorageRoot(c), "logs", LogName(p)>>
VenvDir(c, p) ==
    IF p = "DockFill_CodeVenv" THEN <<"code", "venv">> ELSE <<StorageRoot(c), "venv">>
BiocDir(c) == <<StorageRoot(c), "bioconductor">>
BiocDownloadDir(c) == <<StorageRoot(c), "bioconductor_download">>

Roots == {StorageRoot(c) : c \in Configs} \cup {"code"}
DirNames == BuildProviders \cup {p \o "_temp" : p \in BuildProviders}
            \cup {"venv", "bioconductor", "bioconductor_download"}
Paths == Roots \X DirNames

\* --------------------------------------------- Bioconductor's sentinel
RECURSIVE Join(_, _)
\* sep.join(seq)
Join(seq, sep) ==
    IF seq = <<>> THEN ""
    ELSE IF Len(seq) = 1 THEN seq[1]
    ELSE seq[1] \o sep \o Join(Tail(seq), sep)

\* should = "done:" + cran_mode + ":" + ":".join(bioconductor_whitelist)
Should(c) == "done:" \o c.cran_mode \o ":" \o Join(c.bioconductor_whitelist, ":")
DoneFile == "done.sentinel"
\* mutant: the sentinel's content is not compared
BiocStale_ExistsOnly(d, should) == ~HasFile(d, DoneFile)
\* not done_file.exists() or done_file.read_text() != should
BiocStale(d, should) == ~HasFile(d, DoneFile) \/ Text(d, DoneFile) # should

\* the repository indices ensure() downloads, in the order of the urls dict
IndexKeys == <<"software", "annotation", "experiment", "cran">>
IndexFile(j) == File(IndexKeys[j] \o ".PACKAGES", "")
\* the download loop; fail = 0: no request fails, fail = j: a request for
\* the j-th index ends non-200 (download_file raises)
DownloadRaises(cache, fail) == fail # 0 /\ IndexFile(fail) \notin cache
DownloadLoop(cache, fail) ==
    IF DownloadRaises(cache, fail)
    THEN cache \cup {Dot} \cup {IndexFile(j) : j \in 1..(fail - 1)}
    ELSE cache \cup {Dot} \cup {IndexFile(j) : j \in 1..Len(IndexKeys)}

\* what the install container leaves in the mounted storage_bioconductor
BiocContainerOutput(d, should, sentinel, keep) ==
    LET old == IF keep THEN d ELSE {}
        kept == IF sentinel THEN {f \in old : f.name # DoneFile} ELSE old
    IN  kept \cup {Dot, File("lib", should)}
             \cup (IF sentinel THEN {File(DoneFile, should)} ELSE {})

\* ------------------------------------------------------- Dockerator.ensure
\* mutant: a provider that reports work makes the loop skip its successor
EnsureLoop_Cascade(i, raised, ret) ==
    IF raised THEN [pc |-> "raised", idx |-> i]
    ELSE [pc |-> "ensure", idx |-> IF ret THEN i + 2 ELSE i + 1]
\* mutant: a provider's exception is caught and the loop goes on
EnsureLoop_Swallow(i, raised, ret) == [pc |-> "ensure", idx |-> i + 1]
\* for s in self.strategies: s.ensure()  -- no handler, the result is dropped
EnsureLoop(i, raised, ret) ==
    IF raised THEN [pc |-> "raised", idx |-> i]
    ELSE [pc |-> "ensure", idx |-> i + 1]

\* the called provider's ensure() returned ret, or raised e
Step(raised, ret, e) ==
    LET n == EnsureLoop(idx, raised, ret)
    IN  /\ pc' = n.pc
        /\ idx' = n.idx
        /\ rets' = IF raised THEN rets ELSE Append(rets, ret)
        /\ err' = IF raised THEN e ELSE err

AtProvider(P) ==
    /\ pc = "ensure"
    /\ idx <= Len(Strategies(config))
    /\ Current \in P

\* the configurations one edit of the configuration file away from c: the
\* image, the cran mode or the whitelist changed, or nothing
Edits(c) ==
    {d \in Configs :
        /\ d.r_version = c.r_version
        /\ d.bioconductor_version = c.bioconductor_version
        /\ Cardinality({f \in {"docker_image", "cran_mode", "bioconductor_whitelist"} :
                            d[f] # c[f]}) <= 1}

\* a new invocation: the configuration is read, a Dockerator is constructed
\* and its ensure() is called.  r_version and bioconductor_version stay.
Invoke(c) ==
    /\ pc \in {"idle", "done", "raised", "crashed"}
    /\ runs < MaxRuns
    /\ c \in Edits(config)
    /\ pc = "idle" => c = config
    /\ config' = c
    /\ prevConfig' = config
    /\ prevOutcome' = pc
    /\ runs' = runs + 1
    /\ pc' = "ensure"
    /\ idx' = 1
    /\ bpc' = "none"
    /\ purged' = FALSE
    /\ calls' = <<>>
    /\ rets' = <<>>
    /\ events' = {}
    /\ err' = None
    /\ UNCHANGED <<fs, images, logs>>

EnsureDone ==
    /\ pc = "ensure"
    /\ idx > Len(Strategies(config))
    /\ pc' = "done"
    /\ UNCHANGED <<config, fs, images, logs, idx, bpc, purged, calls, rets,
                   events, err, runs, prevConfig, prevOutcome>>

\* ---------------------------------------------------- DockFill_Docker.ensure
DockerWorkKind(c) ==
    IF ImageFamily(c) \in RecipeFamilies THEN "image_build" ELSE "pull"
\* return False, whatever was done
DockerReturn(didWork) == FALSE

DockerEnsure ==
    /\ AtProvider({"DockFill_Docker"})
    /\ calls' = Append(calls, Current)
    /\ IF DockerImage(config) \in images
       THEN /\ Step(FALSE, DockerReturn(FALSE), None)
            /\ UNCHANGED <<images, events>>
       ELSE \E ok \in BOOLEAN :
                /\ events' = events \cup {<<Current, DockerWorkKind(config)>>}
                /\ images' = IF ok THEN images \cup {DockerImage(config)} ELSE images
                /\ Step(~ok, DockerReturn(TRUE), DockerWorkKind(config))
    /\ UNCHANGED <<config, fs, logs, bpc, purged, runs, prevConfig, prevOutcome>>

\* -------------------------------------------------------- Dockerator.build
\* mutant: build() does not look at target_dir
BuildNeeded_Always(t) == TRUE
\* if not target_dir.exists(): ... else nothing
BuildNeeded(t) == ~Exists(fs[t])
\* mutant: the stale build_dir is not removed
Rmtree_Keeps(d) == d
\* shutil.rmtree(build_dir)
Rmtree(d) == {}
\* mutant: the rename happens without the check
BuildVerified_Always(d) == TRUE
\* if not (build_dir / relative_check_filename).exists(): raise, else rename
BuildVerified(d) == HasFile(d, CheckFile)
\* what a build container can write into the mounted build_dir
ContainerOutputs == {{}, {File("data", "")}, {File("data", ""), File(CheckFile, "")}}
BuildReturn(didWork) == didWork

\* mutant: build_dir is made before version_check runs
BuildEnter_MkdirFirst ==
    /\ AtProvider(BuildProviders)
    /\ calls' = Append(calls, Current)
    /\ purged' = FALSE
    /\ IF ~BuildNeeded(TargetDir(config, Current))
       THEN /\ Step(FALSE, BuildReturn(FALSE), None)
            /\ UNCHANGED <<bpc, events, fs>>
       ELSE \E ok \in BOOLEAN :
                /\ fs' = [fs EXCEPT ![BuildDir(TargetDir(config, Current))] = EmptyDir]
                /\ IF Current \in VersionChecked
                   THEN events' = events \cup {<<Current, "version_check">>}
                   ELSE /\ ok
                        /\ events' = events
                /\ IF ok
                   THEN /\ pc' = "build"
                        /\ bpc' = "purge"
                        /\ UNCHANGED <<idx, rets, err>>
                   ELSE /\ Step(TRUE, FALSE, "version_check")
                        /\ bpc' = bpc
    /\ UNCHANGED <<config, images, logs, runs, prevConfig, prevOutcome>>
\* a provider's ensure() calls build(): the target_dir test and version_check
BuildEnter ==
    /\ AtProvider(BuildProviders)
    /\ calls' = Append(calls, Current)
    /\ purged' = FALSE
    /\ IF ~BuildNeeded(TargetDir(config, Current))
       THEN /\ Step(FALSE, BuildReturn(FALSE), None)
            /\ UNCHANGED <<bpc, events>>
       ELSE \E ok \in BOOLEAN :
                /\ IF Current \in VersionChecked
                   THEN events' = events \cup {<<Current, "version_check">>}
                   ELSE /\ ok
                        /\ events' = events
                /\ IF ok
                   THEN /\ pc' = "build"
                        /\ bpc' = "purge"
                        /\ UNCHANGED <<idx, rets, err>>
                   ELSE /\ Step(TRUE, FALSE, "version_check")
                        /\ bpc' = bpc
    /\ UNCHANGED <<config, fs, images, logs, runs, prevConfig, prevOutcome>>

\* if build_dir.exists(): shutil.rmtree(build_dir)
BuildPurge ==
    /\ pc = "build" /\ bpc = "purge"
    /\ LET bd == BuildDir(TargetDir(config, Current))
       IN  IF Exists(fs[bd])
           THEN /\ fs' = [fs EXCEPT ![bd] = Rmtree(fs[bd])]
                /\ purged' = TRUE
                /\ events' = events \cup {<<Current, "rmtree">>}
           ELSE UNCHANGED <<fs, purged, events>>
    /\ bpc' = "mkdir"
    /\ UNCHANGED <<config, images, logs, pc, idx, calls, rets, err, runs,
                   prevConfig, prevOutcome>>

\* build_dir.mkdir(parents=True): FileExistsError when it is there
BuildMkdir ==
    /\ pc = "build" /\ bpc = "mkdir"
    /\ LET bd == BuildDir(TargetDir(config, Current))
       IN  IF Exists(fs[bd])
           THEN /\ Step(TRUE, FALSE, "mkdir")
                /\ bpc' = "none"
                /\ UNCHANGED <<fs, events>>
           ELSE /\ fs' = [fs EXCEPT ![bd] = EmptyDir]
                /\ events' = events \cup {<<Current, "mkdir">>}
                /\ bpc' = "run"
                /\ UNCHANGED <<pc, idx, rets, err>>
    /\ UNCHANGED <<config, images, logs, purged, calls, runs, prevConfig, prevOutcome>>

\* _run_docker: the container runs with build_dir mounted; a non-zero exit
\* raises before the log is written
BuildRun ==
    /\ pc = "build" /\ bpc = "run"
    /\ \E exit \in {"ok", "error"}, out \in ContainerOutputs :
        LET bd == BuildDir(TargetDir(config, Current))
        IN  /\ fs' = [fs EXCEPT ![bd] = fs[bd] \cup out]
            /\ events' = events \cup {<<Current, "container">>}
            /\ IF exit = "ok"
               THEN /\ logs' = logs \cup {LogPath(config, Current)}
                    /\ bpc' = "verify"
                    /\ UNCHANGED <<pc, idx, rets, err>>
               ELSE /\ Step(TRUE, FALSE, "container")
                    /\ bpc' = "none"
                    /\ logs' = logs
    /\ UNCHANGED <<config, images, purged, calls, runs, prevConfig, prevOutcome>>

\* the check file decides: raise ValueError, or build_dir.rename(target_dir)
BuildVerify ==
    /\ pc = "build" /\ bpc = "verify"
    /\ LET t == TargetDir(config, Current)
           bd == BuildDir(t)
       IN  IF BuildVerified(fs[bd])
           THEN /\ fs' = [fs EXCEPT ![t] = fs[bd], ![bd] = {}]
                /\ events' = events \cup {<<Current, "rename">>}
                /\ Step(FALSE, BuildReturn(TRUE), None)
           ELSE /\ Step(TRUE, FALSE, "verify")
                /\ UNCHANGED <<fs, events>>
    /\ bpc' = "none"
    /\ UNCHANGED <<config, images, logs, purged, calls, runs, prevConfig, prevOutcome>>

\* the process dies at some step of build()
Crash ==
    /\ pc = "build"
    /\ pc' = "crashed"
    /\ bpc' = "none"
    /\ UNCHANGED <<config, fs, images, logs, idx, purged, calls, rets, events,
                   err, runs, prevConfig, prevOutcome>>

\* ------------------------------------------- virtual-environment providers
global_python_packages == <<>>
local_python_packages == <<"numpy">>
VenvPackages(p) ==
    IF p = "DockFill_CodeVenv" THEN local_python_packages ELSE global_python_packages
VenvInstalled(d) == HasFile(d, "site-packages")

\* no-op without packages; otherwise re-run, installing what is not installed
VenvEnsure ==
    /\ AtProvider(VenvProviders)
    /\ calls' = Append(calls, Current)
    /\ LET v == VenvDir(config, Current)
       IN  IF VenvPackages(Current) = <<>> \/ VenvInstalled(fs[v])
           THEN /\ Step(FALSE, FALSE, None)
                /\ UNCHANGED <<fs, events>>
           ELSE \E ok \in BOOLEAN :
                    /\ events' = events \cup {<<Current, "container">>}
                    /\ fs' = [fs EXCEPT ![v] =
                                 IF ok THEN {Dot, File("site-packages", "")}
                                 ELSE fs[v] \cup {Dot}]
                    /\ Step(~ok, TRUE, "install")
    /\ UNCHANGED <<config, images, logs, bpc, purged, runs, prevConfig, prevOutcome>>

\* ------------------------------------------------ DockFill_Bioconductor.ensure
\* return True after the container, return False when nothing was stale
BiocReturn(didWork) == didWork

BiocEnsure ==
    /\ AtProvider({"DockFill_Bioconductor"})
    /\ calls' = Append(calls, Current)
    /\ LET b == BiocDir(config)
           dl == BiocDownloadDir(config)
           should == Should(config)
       IN  IF ~BiocStale(fs[b], should)
           THEN /\ Step(FALSE, BiocReturn(FALSE), None)
                /\ UNCHANGED <<fs, logs, events, bpc>>
           ELSE \E fail \in 0..Len(IndexKeys), sentinel \in BOOLEAN, keep \in BOOLEAN,
                   exit \in {"ok", "error", "crash"} :
                LET cache == DownloadLoop(fs[dl], fail)
                    dlev == IF cache # fs[dl] \/ DownloadRaises(fs[dl], fail)
                            THEN {<<Current, "download">>} ELSE {}
                    out == BiocContainerOutput(fs[b], should, sentinel, keep)
                IN  IF DownloadRaises(fs[dl], fail)
                    THEN /\ fs' = [fs EXCEPT ![dl] = cache]
                         /\ events' = events \cup dlev
                         /\ Step(TRUE, FALSE, "download")
                         /\ UNCHANGED <<logs, bpc>>
                    ELSE /\ fs' = [fs EXCEPT ![dl] = cache, ![b] = out]
                         /\ events' = events \cup dlev \cup {<<Current, "container">>}
                         /\ bpc' = bpc
                         /\ IF exit = "crash"
                            THEN /\ pc' = "crashed"
                                 /\ UNCHANGED <<idx, rets, err, logs>>
                            ELSE IF exit = "error"
                            THEN /\ Step(TRUE, FALSE, "container")
                                 /\ logs' = logs
                            ELSE \* a stale sentinel is only printed
                                 /\ logs' = logs \cup {LogPath(config, Current)}
                                 /\ Step(FALSE, BiocReturn(TRUE), None)
    /\ UNCHANGED <<config, images, purged, runs, prevConfig, prevOutcome>>

\* ------------------------------------------------------------ specification
\* fresh storage, nothing built; R is pinned or derived from Bioconductor,
\* not both ("If bioconductor_version is set, R_version must not be set")
Init ==
    /\ config \in Configs
    /\ config.docker_image.name = "anysnake"
    /\ config.cran_mode = "full"
    /\ config.bioconductor_whitelist = <<>>
    /\ ~(config.r_version # None /\ config.bioconductor_version # None)
    /\ fs = [p \in Paths |-> {}]
    /\ images = {}
    /\ logs = {}
    /\ pc = "idle"
    /\ idx = 1
    /\ bpc = "none"
    /\ purged = FALSE
    /\ calls = <<>>
    /\ rets = <<>>
    /\ events = {}
    /\ err = None
    /\ runs = 0
    /\ prevConfig = config
    /\ prevOutcome = "idle"
    /\ RunIdle
    /\ PkgIdle
    /\ CtorIdle
    /\ RelIdle
    /\ DlIdle
    /\ PortIdle
    /\ PyIdle

\* the operations outside Dockerator.ensure() are not called
Others == <<runVars, pkgVars, ctorVars, relVars, dlVars, portVars, pyVars>>

Next ==
    \/ (\E c \in Configs : Invoke(c)) /\ UNCHANGED Others
    \/ DockerEnsure /\ UNCHANGED Others
    \/ VenvEnsure /\ UNCHANGED Others
    \/ BuildEnter /\ UNCHANGED Others
    \/ BuildPurge /\ UNCHANGED Others
    \/ BuildMkdir /\ UNCHANGED Others
    \/ BuildRun /\ UNCHANGED Others
    \/ BuildVerify /\ UNCHANGED Others
    \/ Crash /\ UNCHANGED Others
    \/ BiocEnsure /\ UNCHANGED Others
    \/ EnsureDone /\ UNCHANGED Others

Spec == Init /\ [][Next]_vars

\* ================================================================= claims
S == Strategies(config)
CurTarget == TargetDir(config, Current)
CurBuildDir == BuildDir(CurTarget)
WorkKinds == {"container", "pull", "image_build", "download"}
\* the providers that did build work in this Dockerator.ensure()
Workers == {e[1] : e \in {x \in events : x[2] \in WorkKinds}}
AllTargets == {TargetDir(c, p) : c \in Configs, p \in BuildProviders}

\* C1: atomic commit.  A build() whose container ended without the check
\* file under build_dir raises and leaves target_dir absent; a target_dir
\* that exists is never changed by any step.
C1_AtomicCommit ==
    [][ /\ (pc = "build" /\ bpc = "verify" /\ pc' # "crashed"
              /\ ~HasFile(fs[CurBuildDir], CheckFile))
           => (pc' = "raised" /\ err' = "verify" /\ ~Exists(fs'[CurTarget]))
        /\ \A t \in AllTargets : Exists(fs[t]) => fs'[t] = fs[t] ]_vars

C1_Witness ==
    /\ pc = "raised" /\ err = "verify"
    /\ Exists(fs[CurBuildDir]) /\ ~Exists(fs[CurTarget])
    /\ \E t \in AllTargets : Exists(fs[t])

\* C2: idempotence.  An ensure() that follows a completed ensure() with the
\* same configuration does no build work (no container, image build, pull
\* or download).
C2_Idempotent ==
    (prevOutcome = "done" /\ prevConfig = config) => Workers = {}

\* the staleness keys: the image reference for the base image, (cran mode,
\* whitelist) for Bioconductor
KeyChanged(a, b) ==
    {p \in {"DockFill_Docker"} : DockerImage(a) # DockerImage(b)}
    \cup {p \in {"DockFill_Bioconductor"} :
            /\ b.bioconductor_version # None
            /\ <<a.cran_mode, a.bioconductor_whitelist>>
                 # <<b.cran_mode, b.bioconductor_whitelist>>}

C4_RebuiltFromScratch ==
    [][ (/\ AtProvider({"DockFill_Bioconductor"})
         /\ HasFile(fs[BiocDir(config)], DoneFile)
         /\ Text(fs[BiocDir(config)], DoneFile) # Should(config)
         /\ <<"DockFill_Bioconductor", "container">> \in events')
        => \A f \in fs'[BiocDir(config)] :
              f.name = "lib" => f.text = Should(config) ]_vars

\* C5: in every state every provider's target directory is absent or fully
\* built: a build() target holds its check file, the Bioconductor target its
\* sentinel.
C5_NoPartialTarget ==
    /\ \A t \in AllTargets : Exists(fs[t]) => HasFile(fs[t], CheckFile)
    /\ \A c \in Configs :
          Exists(fs[BiocDir(c)]) => HasFile(fs[BiocDir(c)], DoneFile)

\* C6: a build() that fails or crashes before the rename leaves target_dir
\* absent and does not delete build_dir; the purge step of the next build()
\* removes a leftover build_dir, the container starts with an empty
\* build_dir, and a target_dir only ever exists verified and without a
\* build_dir beside it.
C6_LeftoverPurged ==
    /\ [](pc = "build" /\ bpc = "run" => fs[CurBuildDir] = EmptyDir)
    /\ [](\A t \in AllTargets :
            Exists(fs[t]) => HasFile(fs[t], CheckFile) /\ ~Exists(fs[BuildDir(t)]))
    /\ [][ /\ (pc = "build" /\ bpc = "purge" /\ pc' = "build")
              => ~Exists(fs'[CurBuildDir])
           /\ (pc = "build" /\ pc' \in {"raised", "crashed"})
              => /\ ~Exists(fs'[CurTarget])
                 /\ fs[CurBuildDir] \subseteq fs'[CurBuildDir] ]_vars

C6_Witness ==
    /\ pc = "build" /\ bpc = "run"
    /\ purged
    /\ prevOutcome \in {"raised", "crashed"}
    /\ fs[CurBuildDir] = EmptyDir

\* C7: build() with target_dir present is a no-op: no version_check, no
\* purge or mkdir, no container, no log, target_dir and everything else on
\* disk unchanged, and the call returns.
C7_BuildNoOp ==
    [][ (AtProvider(BuildProviders) /\ Exists(fs[CurTarget]))
        => /\ fs' = fs /\ logs' = logs /\ images' = images
           /\ events' = events
           /\ pc' = "ensure" /\ idx' = idx + 1 /\ err' = err ]_vars

C7_Witness ==
    \E k \in 1..Len(rets) :
        /\ calls[k] \in BuildProviders
        /\ ~rets[k]
        /\ Exists(fs[TargetDir(config, calls[k])])
        /\ <<calls[k], "container">> \notin events

\* the verification marker of provider p is there and right
MarkerValid(p) ==
    IF p \in BuildProviders THEN Exists(fs[TargetDir(config, p)])
    ELSE IF p \in VenvProviders THEN VenvInstalled(fs[VenvDir(config, p)])
    ELSE IF p = "DockFill_Bioconductor"
         THEN ~BiocStale(fs[BiocDir(config)], Should(config))
    ELSE DockerImage(config) \in images

\* C8: no provider's ensure() returns after a build attempt that left its
\* verification marker absent or wrong: such an attempt raises.
C8_FailureIsFatal ==
    \A k \in 1..Len(rets) : calls[k] \in Workers => MarkerValid(calls[k])

\* C9: Dockerator.ensure() calls the providers' ensure() in the order of
\* strategies, each once, whatever the earlier calls returned.
C9_EnsureOrder ==
    /\ Len(calls) <= Len(S)
    /\ calls = SubSeq(S, 1, Len(calls))
    /\ pc = "ensure" => Len(calls) = idx - 1 /\ Len(rets) = Len(calls)
    /\ pc = "done" => calls = S /\ Len(rets) = Len(S)

C9_Witness ==
    /\ pc = "done"
    /\ Len(S) > 4
    /\ \E k \in 1..(Len(rets) - 1) : rets[k]
    /\ \E k \in 1..(Len(rets) - 1) : ~rets[k]

\* C10: when the i-th provider's ensure() raises, Dockerator.ensure() ends
\* with that error: providers 1..i were called in order, none after i was
\* called or did anything.
C10_FailFast ==
    err # None =>
        /\ pc = "raised"
        /\ Len(calls) = idx
        /\ calls = SubSeq(S, 1, idx)
        /\ Len(rets) = idx - 1
        /\ \A e \in events : Position(config, e[1]) <= idx

C10_Witness ==
    /\ pc = "raised"
    /\ idx > 1 /\ idx < Len(S)
    /\ Workers # {}


\* C21: when version_check raises in build(), nothing was done before it:
\* the step changes no directory, log or image, target_dir is absent, a stale
\* build_dir is neither removed nor made, and the called provider has run
\* no container.
C21_VersionCheckFirst ==
    [][ (err = None /\ err' = "version_check") =>
            /\ fs' = fs /\ logs' = logs /\ images' = images
            /\ ~Exists(fs'[CurTarget])
            /\ pc' = "raised"
            /\ \A e \in events' : e[1] = Current => e[2] = "version_check"
      ]_vars

C21_Witness ==
    /\ pc = "raised" /\ err = "version_check"
    /\ Exists(fs[CurBuildDir])
    /\ ~Exists(fs[CurTarget])
    /\ <<Current, "rmtree">> \notin events

\* ============================================================ Dockerator.run
\* A dict is a function; {} is the function with the empty domain.
EmptyDict == [k \in {} |-> k]
Dicts(K, V) == UNION {[D -> V] : D \in SUBSET K}

\* "/home/u%i" % os.getuid()
home_inside_docker == "/home/u1000"
\* tf.name, os.path.abspath("."), and the one entry of home_files
TempScript == "/tmp/tf"
Cwd == "/cwd"
HomeFile == ".jupyter"
HomeOutside == "/home/me/" \o HomeFile
HomeInside == home_inside_docker \o "/" \o HomeFile

EnvKeys == {"HOME", "LD_LIBRARY_PATH"}
OutsidePaths == {"/storage/a", "/storage/b"}
ProviderInside == {"/anysnake/a", "/anysnake/b"}
CallerInside == {"/anysnake/a", "/project", "/opt/run.sh"}

\* a strategy as run() sees it: volumes, and shell_envs if it has the attribute
Strategy(n, v, has, e) ==
    [name |-> n, volumes |-> v, has_shell_envs |-> has, shell_envs |-> e]
\* DockFill_Docker: self.volumes = {}, no shell_envs
DockerStrategy == Strategy("DockFill_Docker", EmptyDict, FALSE, EmptyDict)
RunStrategies ==
    {<<DockerStrategy, r, rpy2>> :
        r \in {Strategy("DockFill_R", v, FALSE, EmptyDict) :
                  v \in Dicts(OutsidePaths, ProviderInside)},
        rpy2 \in {Strategy("DockFill_Rpy2", EmptyDict, has,
                      IF has THEN [k \in EnvKeys |-> "rpy2"] ELSE EmptyDict) :
                  has \in BOOLEAN}}

RunCalls ==
    [env : Dicts(EnvKeys, {"caller"}),
     home_file : {"missing", "dir", "file"},
     volumes_ro : Dicts(OutsidePaths, CallerInside),
     volumes_rw : Dicts(OutsidePaths, CallerInside),
     allow_writes : BOOLEAN,
     strategies : RunStrategies]

\* [df.volumes for df in self.strategies]
RECURSIVE StrategyVolumes(_)
StrategyVolumes(ss) ==
    IF ss = <<>> THEN <<>> ELSE <<Head(ss).volumes>> \o StrategyVolumes(Tail(ss))

\* mutant: volumes_ro is not appended
ro_volumes_NoCaller(c) ==
    <<(TempScript :> "/opt/run.sh")
        @@ (IF c.home_file = "file" THEN (HomeOutside :> HomeInside) ELSE EmptyDict)>>
    \o (IF c.allow_writes THEN <<>> ELSE StrategyVolumes(c.strategies))
ro_volumes(c) ==
    <<(TempScript :> "/opt/run.sh")
        @@ (IF c.home_file = "file" THEN (HomeOutside :> HomeInside) ELSE EmptyDict)>>
    \o (IF c.allow_writes THEN <<>> ELSE StrategyVolumes(c.strategies))
    \o <<c.volumes_ro>>

\* mutant: the strategies' volumes never go to the read-write list
rw_volumes_NoProviders(c) ==
    <<(Cwd :> "/project")
        @@ (IF c.home_file = "dir" THEN (HomeOutside :> HomeInside) ELSE EmptyDict)>>
    \o <<c.volumes_rw>>
\* mutant: volumes_rw is not appended
rw_volumes_NoCaller(c) ==
    <<(Cwd :> "/project")
        @@ (IF c.home_file = "dir" THEN (HomeOutside :> HomeInside) ELSE EmptyDict)>>
    \o (IF c.allow_writes THEN StrategyVolumes(c.strategies) ELSE <<>>)
rw_volumes(c) ==
    <<(Cwd :> "/project")
        @@ (IF c.home_file = "dir" THEN (HomeOutside :> HomeInside) ELSE EmptyDict)>>
    \o (IF c.allow_writes THEN StrategyVolumes(c.strategies) ELSE <<>>)
    \o <<c.volumes_rw>>

\* util.combine_volumes: the claims registered in order, read-only lists
\* first; a later claim for the same outside path replaces the earlier one
RECURSIVE Register(_, _, _)
Register(table, dicts, mode) ==
    IF dicts = <<>> THEN table
    ELSE Register([o \in DOMAIN Head(dicts) |-> <<Head(dicts)[o], mode>>] @@ table,
                  Tail(dicts), mode)
\* two different outside paths with the same inside path
Conflict(table) ==
    \E o1, o2 \in DOMAIN table : o1 # o2 /\ table[o1][1] = table[o2][1]
combine_volumes(ro, rw) ==
    LET table == Register(Register(EmptyDict, ro, "ro"), rw, "rw")
    IN  [raised |-> Conflict(table), volumes |-> table]

\* the "-v outside:inside:mode" arguments
Mounts(volumes) == {<<o, volumes[o][1], volumes[o][2]>> : o \in DOMAIN volumes}

RECURSIVE UpdateEnvs(_, _)
\* for s in self.strategies: if hasattr(s, "shell_envs"): env.update(s.shell_envs)
UpdateEnvs(env, ss) ==
    IF ss = <<>> THEN env
    ELSE UpdateEnvs(IF Head(ss).has_shell_envs THEN Head(ss).shell_envs @@ env ELSE env,
                    Tail(ss))
\* the "-e key=value" arguments
MergeEnv(c) ==
    UpdateEnvs(IF "HOME" \in DOMAIN c.env THEN c.env
               ELSE ("HOME" :> home_inside_docker) @@ c.env,
               c.strategies)

NoRun == [status |-> "none", mounts |-> {}, env |-> EmptyDict]

Run ==
    /\ run_result.status = "none"
    /\ LET merged == combine_volumes(ro_volumes(run_call), rw_volumes(run_call))
       IN  run_result' =
               IF merged.raised
               THEN [status |-> "raised", mounts |-> {}, env |-> EmptyDict]
               ELSE [status |-> "ok", mounts |-> Mounts(merged.volumes),
                     env |-> MergeEnv(run_call)]
    /\ UNCHANGED run_call

\* the state Dockerator.ensure() is in while the other operations are exercised
EnsureIdle ==
    /\ config = CHOOSE c \in Configs : TRUE
    /\ fs = [p \in Paths |-> {}]
    /\ images = {}
    /\ logs = {}
    /\ pc = "idle"
    /\ idx = 1
    /\ bpc = "none"
    /\ purged = FALSE
    /\ calls = <<>>
    /\ rets = <<>>
    /\ events = {}
    /\ err = None
    /\ runs = 0
    /\ prevConfig = config
    /\ prevOutcome = "idle"

InitRun ==
    /\ run_call \in RunCalls
    /\ run_result = NoRun
    /\ EnsureIdle
    /\ PkgIdle
    /\ CtorIdle
    /\ RelIdle
    /\ DlIdle
    /\ PortIdle
    /\ PyIdle

NextRun == Run /\ UNCHANGED <<vars, pkgVars, ctorVars, relVars, dlVars, portVars, pyVars>>

SpecRun == InitRun /\ [][NextRun]_runVars

\* ------------------------------------------------------------ claims of run
ProviderEnvKeys(c) ==
    UNION {DOMAIN c.strategies[i].shell_envs : i \in 1..Len(c.strategies)}
ProviderOutside(c) ==
    UNION {DOMAIN c.strategies[i].volumes : i \in 1..Len(c.strategies)}
\* the modes an outside path is mounted with
ModesOf(o) == {m[3] : m \in {x \in run_result.mounts : x[1] = o}}

\* C11: for every key that is both in the caller's env and in some
\* provider's shell_envs, the container gets the caller's value.
C11_CallerEnvWins ==
    run_result.status = "ok" =>
        \A k \in DOMAIN run_call.env \cap ProviderEnvKeys(run_call) :
            run_result.env[k] = run_call.env[k]

\* every outside path some source of the mount table names
AllOutside(c) ==
    {TempScript, Cwd}
    \cup (IF c.home_file = "missing" THEN {} ELSE {HomeOutside})
    \cup ProviderOutside(c) \cup DOMAIN c.volumes_ro \cup DOMAIN c.volumes_rw

\* C12: a run() that reaches the container mounts every outside path that
\* the script, the project, home_files, the providers or the caller named,
\* and no two different outside paths at the same inside path; when two of
\* the caller's own entries, or a caller's read-write entry and the script
\* or project mount, share an inside path, run() raises.
C12_NoInsideCollision ==
    /\ run_result.status = "ok" =>
          /\ {m[1] : m \in run_result.mounts} = AllOutside(run_call)
          /\ \A m1, m2 \in run_result.mounts : m1[2] = m2[2] => m1[1] = m2[1]
    /\ (\E o \in DOMAIN run_call.volumes_rw :
            \/ run_call.volumes_rw[o] \in {"/opt/run.sh", "/project"}
            \/ \E o2 \in DOMAIN run_call.volumes_rw :
                 o2 # o /\ run_call.volumes_rw[o2] = run_call.volumes_rw[o])
       => run_result.status # "ok"

C12_Witness ==
    /\ run_result.status = "raised"
    /\ run_call.allow_writes = FALSE
    /\ \E o1 \in ProviderOutside(run_call), o2 \in DOMAIN run_call.volumes_ro :
          /\ o1 # o2
          /\ run_call.strategies[2].volumes[o1] = run_call.volumes_ro[o2]
    /\ run_call.volumes_rw = EmptyDict

\* C13: with allow_writes false, an outside path that a provider
\* contributes and the caller names in volumes_rw is mounted exactly once,
\* read-write, at the caller's inside path.
C13_CallerRwOverrides ==
    (run_result.status = "ok" /\ ~run_call.allow_writes) =>
        \A o \in DOMAIN run_call.volumes_rw \cap ProviderOutside(run_call) :
            {m \in run_result.mounts : m[1] = o}
                = {<<o, run_call.volumes_rw[o], "rw">>}

C13_Witness ==
    /\ run_result.status = "ok"
    /\ ~run_call.allow_writes
    /\ \E o \in DOMAIN run_call.volumes_rw \cap ProviderOutside(run_call) :
          /\ <<o, run_call.volumes_rw[o], "rw">> \in run_result.mounts
          /\ run_call.volumes_rw[o] # run_call.strategies[2].volumes[o]

\* C14: the providers' volumes are classified as a whole by allow_writes:
\* with allow_writes every provider's outside path is mounted read-write;
\* without it every provider's outside path that the caller did not name in
\* volumes_rw is mounted read-only.
C14_AllowWritesClassifies ==
    run_result.status = "ok" =>
        \A o \in ProviderOutside(run_call) :
            /\ run_call.allow_writes => ModesOf(o) = {"rw"}
            /\ (~run_call.allow_writes /\ o \notin DOMAIN run_call.volumes_rw)
                  => ModesOf(o) = {"ro"}

C14_Witness ==
    /\ run_result.status = "ok"
    /\ run_call.allow_writes
    /\ Cardinality(ProviderOutside(run_call)) = 2
    /\ \E o \in ProviderOutside(run_call) : o \in DOMAIN run_call.volumes_ro
    /\ \A o \in ProviderOutside(run_call) : ModesOf(o) = {"rw"}

\* ================================================ Dockerator.annotate_packages
\* A string whose characters the code inspects is a sequence of characters.
StartsWith(s, p) == Len(s) >= Len(p) /\ SubSeq(s, 1, Len(p)) = p
\* sub in s
Contains(s, sub) ==
    \E i \in 1..(Len(s) - Len(sub) + 1) : SubSeq(s, i, i + Len(sub) - 1) = sub
\* s[n:]
Drop(s, n) == SubSeq(s, n + 1, Len(s))

\* a version that is None
NoVersion == <<"None">>
HgPrefix == <<"h", "g", "+", "h", "t", "t", "p", "s">>
GitPrefix == <<"g", "i", "t", "+", "h", "t", "t", "p", "s">>
GitHub == <<"h", "t", "t", "p", "s", ":", "/", "/", "g", "i", "t", "h", "u", "b", ".", "c", "o", "m", "/">>
PackageNames == {<<"a">>, <<"b">>, <<"u", "/", "r">>}
PackageVersions ==
    {NoVersion, <<>>,
     <<"1", ".", "2", ".", "3">>,
     <<"h", "g", "+", "h", "t", "t", "p", "s", ":", "/", "/", "e", "/", "r">>,
     <<"g", "i", "t", "+", "h", "t", "t", "p", "s", ":", "/", "/", "e", "/", "r">>,
     <<"u", "/", "r">>,
     <<"h", "t", "t", "p", "s", ":", "/", "/", "x", "/", "y">>,
     <<"h", "g", "+", "h", "t", "t", "p", ":", "/", "/", "e", "/", "r">>,
     <<">", "=", "1", ".", "0">>}

\* an entry of the dict: version, and method and url once they are set
Entry(v, m, u) == [version |-> v, method |-> m, url |-> u]
\* parsed packages, in the dict's order: <<name, entry>> with distinct names
ParsedPackages ==
    {<<<<n, Entry(v, None, <<>>)>>>> : n \in PackageNames, v \in PackageVersions}
    \cup {<<<<n[1], Entry(v1, None, <<>>)>>, <<n[2], Entry(v2, None, <<>>)>>>> :
            n \in {x \in PackageNames \X PackageNames : x[1] # x[2]},
            v1 \in PackageVersions, v2 \in PackageVersions}

\* if not entry["version"]: entry["version"] = ""
Version(e) == IF e.version \in {NoVersion, <<>>} THEN <<>> ELSE e.version

\* the loop body raises: "/" in name, or a version with "/" and "://" that
\* has neither prefix
EntryRaises(name, e) ==
    \/ Contains(name, <<"/">>)
    \/ /\ ~StartsWith(Version(e), HgPrefix)
       /\ ~StartsWith(Version(e), GitPrefix)
       /\ Contains(Version(e), <<"/">>)
       /\ Contains(Version(e), <<":", "/", "/">>)

\* mutant: git+https is a git checkout
MethodOf_GitIsGit(v) ==
    IF StartsWith(v, HgPrefix) THEN "hg"
    ELSE IF StartsWith(v, GitPrefix) THEN "git"
    ELSE IF Contains(v, <<"/">>) THEN "git"
    ELSE "pip"
\* entry["method"], for a version that does not raise
MethodOf(v) ==
    IF StartsWith(v, HgPrefix) THEN "hg"
    ELSE IF StartsWith(v, GitPrefix) THEN "hg"
    ELSE IF Contains(v, <<"/">>) THEN "git"
    ELSE "pip"

\* entry["url"]; the pip branch sets none
UrlOf(v) ==
    IF StartsWith(v, HgPrefix) \/ StartsWith(v, GitPrefix) THEN Drop(v, 3)
    ELSE IF Contains(v, <<"/">>) THEN GitHub \o v
    ELSE <<>>

\* the entry after the loop body; a body that raises on the name has not
\* touched it, one that raises on the version has set version only
AnnotateEntry(name, e) ==
    IF Contains(name, <<"/">>) THEN e
    ELSE IF EntryRaises(name, e) THEN [e EXCEPT !.version = Version(e)]
    ELSE Entry(Version(e), MethodOf(Version(e)), UrlOf(Version(e)))

\* the first entry whose loop body raises, 0 if none
FirstRaise(pkgs) ==
    IF \E i \in 1..Len(pkgs) : EntryRaises(pkgs[i][1], pkgs[i][2])
    THEN CHOOSE i \in 1..Len(pkgs) :
            /\ EntryRaises(pkgs[i][1], pkgs[i][2])
            /\ \A j \in 1..(i - 1) : ~EntryRaises(pkgs[j][1], pkgs[j][2])
    ELSE 0

\* the entries when the call ends: the copy is shallow, the entries are the
\* caller's own, and the loop stops at the first raise
AnnotatedEntries(pkgs) ==
    [i \in 1..Len(pkgs) |->
        IF FirstRaise(pkgs) = 0 \/ i <= FirstRaise(pkgs)
        THEN <<pkgs[i][1], AnnotateEntry(pkgs[i][1], pkgs[i][2])>>
        ELSE pkgs[i]]

NotAnnotated == [status |-> "none", packages |-> <<>>]

AnnotatePackages ==
    /\ annotated.status = "none"
    /\ parsed_packages' = AnnotatedEntries(parsed_packages)
    /\ annotated' =
          IF FirstRaise(parsed_packages) = 0
          THEN [status |-> "ok", packages |-> AnnotatedEntries(parsed_packages)]
          ELSE [status |-> "raised", packages |-> <<>>]

InitPkg ==
    /\ parsed_packages \in ParsedPackages
    /\ annotated = NotAnnotated
    /\ EnsureIdle
    /\ RunIdle
    /\ CtorIdle
    /\ RelIdle
    /\ DlIdle
    /\ PortIdle
    /\ PyIdle

NextPkg == AnnotatePackages /\ UNCHANGED <<vars, runVars, ctorVars, relVars, dlVars, portVars, pyVars>>

SpecPkg == InitPkg /\ [][NextPkg]_pkgVars

\* ------------------------------------------------ claims of annotate_packages
Slash == <<"/">>
Scheme == <<":", "/", "/">>
HasCheckoutPrefix(v) == StartsWith(v, HgPrefix) \/ StartsWith(v, GitPrefix)

\* C15: version classification.  For the packages given to a call: a name
\* with "/" raises; a version with prefix hg+https or git+https yields
\* method hg; any other version with "/" and without "://" yields method git
\* and the url "https://github.com/" + version; any other version with "://"
\* raises; every remaining version, None and "" included, yields method pip.
C15_Classification ==
    [][ \A i \in 1..Len(parsed_packages) :
          LET name == parsed_packages[i][1]
              v == parsed_packages[i][2].version
          IN  /\ Contains(name, Slash) => annotated'.status = "raised"
              /\ (~HasCheckoutPrefix(v) /\ Contains(v, Scheme))
                    => annotated'.status = "raised"
              /\ annotated'.status = "ok" =>
                    LET e == annotated'.packages[i][2]
                    IN  /\ annotated'.packages[i][1] = name
                        /\ HasCheckoutPrefix(v) => e.method = "hg"
                        /\ (~HasCheckoutPrefix(v) /\ Contains(v, Slash))
                              => (e.method = "git" /\ e.url = GitHub \o v)
                        /\ (v = NoVersion \/ ~Contains(v, Slash))
                              => e.method = "pip"
      ]_pkgVars

C15_Witness ==
    /\ annotated.status = "ok"
    /\ Len(annotated.packages) = 2
    /\ StartsWith(annotated.packages[1][2].version, GitPrefix)
    /\ annotated.packages[1][2].method = "hg"
    /\ annotated.packages[2][2].version = <<>>
    /\ annotated.packages[2][2].method = "pip"

\* ======================================================= Dockerator.__init__
\* ord() of the characters of a version string
Ord(ch) ==
    CASE ch = "." -> 46
      [] ch = "0" -> 48 [] ch = "1" -> 49 [] ch = "2" -> 50 [] ch = "3" -> 51
      [] ch = "4" -> 52 [] ch = "5" -> 53 [] ch = "6" -> 54 [] ch = "7" -> 55
      [] ch = "8" -> 56 [] ch = "9" -> 57

RECURSIVE StrLess(_, _)
\* a < b on str: by the first differing character, a proper prefix is smaller
StrLess(a, b) ==
    IF b = <<>> THEN FALSE
    ELSE IF a = <<>> THEN TRUE
    ELSE IF Ord(Head(a)) # Ord(Head(b)) THEN Ord(Head(a)) < Ord(Head(b))
    ELSE StrLess(Tail(a), Tail(b))

\* mutant: no version is refused
NotRpy2Compatible_Never(v) == FALSE
\* self.R_version < "3.0"
NotRpy2Compatible(v) == StrLess(v, <<"3", ".", "0">>)

\* the providers that may have get_additional_docker_build_cmds
CmdProviders == {"DockFill_Python", "DockFill_Rpy2"}
RStrings == {<<"2", ".", "9">>, <<"2", ".", "1", "5", ".", "3">>, <<"3", ".", "0">>, <<"3", ".", "5", ".", "1">>, <<"1", "0", ".", "0">>}
\* r_version: None, "" or a version; both None and "" are falsy
RArguments == {NoVersion, <<>>} \cup RStrings
Given(v) == v \notin {NoVersion, <<>>}

\* release: the r_version that find_r_from_bioconductor returns, or
\* lookup_raises when bioconductor_relase_information raises; with_cmds: the
\* providers that have get_additional_docker_build_cmds; image_present: the
\* image's tag is in the engine's list when ensure() is called
CtorCalls ==
    [r_version : RArguments, bioconductor_version : BiocVersions,
     release : RStrings, lookup_raises : BOOLEAN,
     docker_image : Images, image_present : BOOLEAN,
     with_cmds : SUBSET CmdProviders]

\* the configuration that decides the strategies
CtorConfig(c) ==
    [r_version |-> IF Given(c.r_version) THEN "given" ELSE None,
     bioconductor_version |-> c.bioconductor_version]

\* self.R_version; <<>> stands for None
ResolvedR(c) ==
    IF Given(c.r_version) THEN c.r_version
    ELSE IF c.bioconductor_version # None THEN c.release
    ELSE <<>>

\* self.paths after Dockerator.__init__'s own entries and DockFill_Docker's
BasePaths(c) ==
    [k \in {"storage", "code", "log_storage", "log_code",
            "docker_image_build_scripts"} |->
        CASE k = "storage" -> StorageRoot(c)
          [] k = "code" -> "code"
          [] k = "log_storage" -> StorageRoot(c) \o "/logs"
          [] k = "log_code" -> "code/logs"
          [] k = "docker_image_build_scripts" -> "docker_images"]
\* the entry bioconductor_relase_information writes on every call
ReleaseInfoPaths(c) ==
    "storage_bioconductor_release_info" :>
        (StorageRoot(c) \o "/bioconductor_release_info/" \o c.bioconductor_version)
\* the entries DockFill_Bioconductor.__init__ writes
BiocPaths(c) ==
    [k \in {"storage_bioconductor", "docker_storage_bioconductor",
            "storage_bioconductor_download", "docker_storage_bioconductor_download",
            "log_bioconductor", "log_bioconductor.todo"} |->
        CASE k = "storage_bioconductor" ->
                 StorageRoot(c) \o "/bioconductor/" \o c.bioconductor_version
          [] k = "docker_storage_bioconductor" -> "/dockerator/bioconductor"
          [] k = "storage_bioconductor_download" ->
                 StorageRoot(c) \o "/bioconductor_download/" \o c.bioconductor_version
          [] k = "docker_storage_bioconductor_download" ->
                 "/dockerator/bioconductor_download"
          [] k = "log_bioconductor" ->
                 StorageRoot(c) \o "/logs/dockerator.bioconductor."
                     \o c.bioconductor_version \o ".log"
          [] k = "log_bioconductor.todo" ->
                 StorageRoot(c) \o "/logs/dockerator.bioconductor."
                     \o c.bioconductor_version \o ".todo.log"]

\* the path table when __init__ returns
ConstructedPaths(c, looks_up) ==
    (IF c.bioconductor_version # None THEN BiocPaths(c) ELSE EmptyDict)
    @@ (IF looks_up THEN ReleaseInfoPaths(c) ELSE EmptyDict)
    @@ BasePaths(c)

\* the Dockerfile of docker_images/<family>, and a provider's
\* get_additional_docker_build_cmds()
BaseDockerfile(family) == "FROM " \o family \o "-base\n"
AdditionalCmds(p) == "RUN " \o p \o "\n"
\* DockFill_Docker(self): docker_build_cmds = ""
docker_build_cmds == ""

\* mutant: the list as it was when DockFill_Docker was constructed
RecipeStrategies_OnlyDocker(d) == <<"DockFill_Docker">>
\* self.anysnake.strategies, read when get_dockerfile_text runs
RecipeStrategies(d) == d.strategies

RECURSIVE CollectCmds(_, _)
\* for s in strategies: if hasattr(s, ...): b += s.get_additional_docker_build_cmds()
CollectCmds(ss, with_cmds) ==
    IF ss = <<>> THEN ""
    ELSE (IF Head(ss) \in with_cmds THEN AdditionalCmds(Head(ss)) ELSE "")
         \o CollectCmds(Tail(ss), with_cmds)

get_dockerfile_text(d, c) ==
    BaseDockerfile(ImageFamily(c)) \o CollectCmds(RecipeStrategies(d), c.with_cmds)
    \o "\n" \o docker_build_cmds \o "\n"

NoDockerator ==
    [status |-> "none", error |-> None, R_version |-> <<>>, strategies |-> <<>>,
     looked_up |-> FALSE, ensure_called |-> FALSE, paths |-> EmptyDict,
     image |-> "none", dockerfile |-> ""]

Construct ==
    /\ dockerator.status = "none"
    /\ LET c == ctor_call
           looks_up == ~Given(c.r_version) /\ c.bioconductor_version # None
       IN  dockerator' =
             IF looks_up /\ c.lookup_raises
             THEN [NoDockerator EXCEPT !.status = "raised", !.error = "release",
                                       !.looked_up = TRUE]
             ELSE IF ResolvedR(c) # <<>> /\ NotRpy2Compatible(ResolvedR(c))
             THEN [NoDockerator EXCEPT !.status = "raised", !.error = "rpy2",
                                       !.R_version = ResolvedR(c),
                                       !.looked_up = looks_up]
             ELSE [NoDockerator EXCEPT !.status = "ok",
                                       !.R_version = ResolvedR(c),
                                       !.strategies = Strategies(CtorConfig(c)),
                                       !.looked_up = looks_up,
                                       !.paths = ConstructedPaths(c, looks_up)]
    /\ UNCHANGED ctor_call

\* Dockerator.ensure() on the constructed object: DockFill_Docker.ensure
\* finds, builds or pulls the image; DockFill_Bioconductor.ensure, when its
\* sentinel is stale, calls bioconductor_relase_information
CtorEnsure ==
    /\ dockerator.status = "ok"
    /\ ~dockerator.ensure_called
    /\ \E stale \in BOOLEAN :
        LET c == ctor_call
            builds == ~c.image_present /\ ImageFamily(c) \in RecipeFamilies
            looks_up == stale /\ \E i \in 1..Len(dockerator.strategies) :
                            dockerator.strategies[i] = "DockFill_Bioconductor"
        IN  dockerator' =
              [dockerator EXCEPT
                 !.ensure_called = TRUE,
                 !.image = IF c.image_present THEN "present"
                           ELSE IF builds THEN "build" ELSE "pull",
                 !.dockerfile = IF builds THEN get_dockerfile_text(dockerator, c)
                                ELSE "",
                 !.paths = IF looks_up THEN ReleaseInfoPaths(c) @@ @ ELSE @]
    /\ UNCHANGED ctor_call

InitCtor ==
    /\ ctor_call \in CtorCalls
    /\ dockerator = NoDockerator
    /\ EnsureIdle
    /\ RunIdle
    /\ PkgIdle
    /\ RelIdle
    /\ DlIdle
    /\ PortIdle
    /\ PyIdle

NextCtor ==
    \/ Construct /\ UNCHANGED <<vars, runVars, pkgVars, relVars, dlVars, portVars, pyVars>>
    \/ CtorEnsure /\ UNCHANGED <<vars, runVars, pkgVars, relVars, dlVars, portVars, pyVars>>

SpecCtor == InitCtor /\ [][NextCtor]_ctorVars

\* --------------------------------------------------- claims of construction
\* the number a character sequence of digits denotes
RECURSIVE Number(_)
Number(ds) ==
    IF ds = <<>> THEN 0
    ELSE 10 * Number(SubSeq(ds, 1, Len(ds) - 1)) + (Ord(ds[Len(ds)]) - Ord("0"))
\* the major version number: the digits before the first "."
Major(v) ==
    LET dot == IF \E i \in 1..Len(v) : v[i] = "."
               THEN CHOOSE i \in 1..Len(v) :
                        v[i] = "." /\ \A j \in 1..(i - 1) : v[j] # "."
               ELSE Len(v) + 1
    IN  Number(SubSeq(v, 1, dot - 1))
\* a version below 3.0 by its numbers
BelowFloor(v) == Major(v) < 3

\* C16: compatibility floor.  When the resolved R version - the explicit
\* r_version, or the one the release information gives for the Bioconductor
\* version - is below 3.0, the constructor raises: no Dockerator exists, its
\* ensure() is never called and no strategy list was completed.
C16_FloorRaises ==
    (dockerator.status # "none" /\ ResolvedR(ctor_call) # <<>>
        /\ BelowFloor(ResolvedR(ctor_call))
        /\ ~(dockerator.looked_up /\ ctor_call.lookup_raises))
    => /\ dockerator.status = "raised"
       /\ dockerator.error = "rpy2"
       /\ dockerator.strategies = <<>>
       /\ ~dockerator.ensure_called

C16_Witness ==
    /\ dockerator.status = "raised" /\ dockerator.error = "rpy2"
    /\ ~Given(ctor_call.r_version)
    /\ dockerator.looked_up
    /\ dockerator.R_version = <<"2", ".", "1", "5", ".", "3">>

\* C17: a constructor call with both an explicit r_version and a
\* bioconductor_version raises.
C17_BothPinnedRejected ==
    (dockerator.status # "none" /\ Given(ctor_call.r_version)
        /\ ctor_call.bioconductor_version # None)
    => dockerator.status = "raised"

\* ------------------------------------------------- claims of ensure's return
\* the providers that built in this Dockerator.ensure(): an image build or
\* pull, or a container
Builders ==
    {e[1] : e \in {x \in events : x[2] \in {"container", "pull", "image_build"}}}

\* C18: every provider's ensure() returns true exactly when that call built.
C18_ReturnsWhetherBuilt ==
    \A k \in 1..Len(rets) : rets[k] <=> (calls[k] \in Builders)

\* =================== DockFill_Bioconductor.bioconductor_relase_information
StorageRoots == {StorageRoot(c) : c \in Configs}
BiocReleases == {"3.7", "3.8"}
\* paths["storage"] / "bioconductor_release_info" / bioconductor_version
ReleaseInfoFile(storage, version) == <<storage, "bioconductor_release_info", version>>
ReleaseInfoFiles == {ReleaseInfoFile(s, v) : s \in StorageRoots, v \in BiocReleases}

\* all_info[version] with info["r_version"] = chosen, the newest minor
\* release the mirror lists at the time of the call
ReleaseInfo(version, chosen) ==
    [release |-> version, r_major_version |-> "3.5", r_version |-> chosen]
MinorReleases == {"3.5.1", "3.5.2"}
\* why a lookup raises: the page layout changed, the version is not on the
\* page, the mirror lists no tarball of the major version
LookupErrors == {"layout", "not_found", "no_tarball"}
\* requests.get calls before the lookup raises
RequestsBefore(error) == IF error = "no_tarball" THEN 2 ELSE 1

\* tomlkit.dumps / tomlkit.loads
Dumps(info) == <<"toml", info>>
Loads(text) == text[2]

\* mutant: the cache file is never looked at
CacheMiss_Always(f) == TRUE
\* not cache_file.exists()
CacheMiss(f) == cache_files[f] = <<>>

Returned(s, v, value) ==
    [storage |-> s, version |-> v, status |-> "ok", value |-> value]
Raised(s, v, error) ==
    [storage |-> s, version |-> v, status |-> "raised", value |-> error]

\* the cache file exists: read it and return
ResolveCached(s, v) ==
    /\ resolves < MaxResolves
    /\ ~CacheMiss(ReleaseInfoFile(s, v))
    /\ resolves' = resolves + 1
    /\ release_ret' = Returned(s, v, Loads(cache_files[ReleaseInfoFile(s, v)]))
    /\ UNCHANGED <<cache_files, requests>>

\* no cache file: fetch the release page and the mirror's listing, write the
\* cache file, read it and return
ResolveFetched(s, v) ==
    /\ resolves < MaxResolves
    /\ CacheMiss(ReleaseInfoFile(s, v))
    /\ resolves' = resolves + 1
    /\ requests' = requests + 2
    /\ \E chosen \in MinorReleases :
          /\ cache_files' = [cache_files EXCEPT ![ReleaseInfoFile(s, v)] =
                                Dumps(ReleaseInfo(v, chosen))]
          /\ release_ret' = Returned(s, v, Loads(cache_files'[ReleaseInfoFile(s, v)]))

\* no cache file, and the lookup raises before write_text
ResolveFailed(s, v) ==
    /\ resolves < MaxResolves
    /\ CacheMiss(ReleaseInfoFile(s, v))
    /\ resolves' = resolves + 1
    /\ \E error \in LookupErrors :
          /\ requests' = requests + RequestsBefore(error)
          /\ release_ret' = Raised(s, v, error)
    /\ UNCHANGED cache_files

InitRel ==
    /\ cache_files = [f \in ReleaseInfoFiles |-> <<>>]
    /\ requests = 0
    /\ resolves = 0
    /\ release_ret = Raised("", "", "")
    /\ EnsureIdle
    /\ RunIdle
    /\ PkgIdle
    /\ CtorIdle
    /\ DlIdle
    /\ PortIdle
    /\ PyIdle

NextRel ==
    \/ \E s \in StorageRoots, v \in BiocReleases :
          ResolveCached(s, v) /\ UNCHANGED <<vars, runVars, pkgVars, ctorVars, dlVars, portVars, pyVars>>
    \/ \E s \in StorageRoots, v \in BiocReleases :
          ResolveFetched(s, v) /\ UNCHANGED <<vars, runVars, pkgVars, ctorVars, dlVars, portVars, pyVars>>
    \/ \E s \in StorageRoots, v \in BiocReleases :
          ResolveFailed(s, v) /\ UNCHANGED <<vars, runVars, pkgVars, ctorVars, dlVars, portVars, pyVars>>

SpecRel == InitRel /\ [][NextRel]_relVars

\* --------------------------------------------- claims of the release cache
CalledFile == ReleaseInfoFile(release_ret'.storage, release_ret'.version)

\* C19: in every call, the remote sources are asked only when the called
\* version's cache file is absent; a call that finds the file returns its
\* content, asks nothing and leaves every cache file as it is; a call that
\* fetched and returned has written the value it returned to the file; a
\* call that raised has left no cache file; no call touches another file.
C19_ReleaseCache ==
    [][ /\ requests' # requests => cache_files[CalledFile] = <<>>
        /\ cache_files[CalledFile] # <<>> =>
              /\ requests' = requests
              /\ cache_files' = cache_files
              /\ release_ret'.status = "ok"
              /\ release_ret'.value = cache_files[CalledFile][2]
        /\ (cache_files[CalledFile] = <<>> /\ release_ret'.status = "ok") =>
              /\ cache_files'[CalledFile] # <<>>
              /\ cache_files'[CalledFile][2] = release_ret'.value
        /\ release_ret'.status = "raised" => cache_files'[CalledFile] = <<>>
        /\ \A f \in ReleaseInfoFiles \ {CalledFile} : cache_files'[f] = cache_files[f]
      ]_relVars

C19_Witness ==
    /\ resolves = 3
    /\ requests = 3
    /\ release_ret.status = "ok"
    /\ cache_files[ReleaseInfoFile(release_ret.storage, release_ret.version)]
          = <<"toml", release_ret.value>>
    /\ Cardinality({f \in ReleaseInfoFiles : cache_files[f] # <<>>}) = 1

\* ================================================================ download_file
\* the cache_path values of DockFill_Bioconductor.ensure's download loop
Filenames == {"software.PACKAGES", "cran.PACKAGES"}
\* str(filename) + "_temp"
TempName(filename) == filename \o "_temp"
\* mutant: the blocks are written to filename itself
WritePath_Filename(filename) == filename
\* the file the blocks are written to
WritePath(filename) == TempName(filename)

NoFile == [exists |-> FALSE, data |-> <<>>]
OnDisk(data) == [exists |-> TRUE, data |-> data]
\* what an earlier download left at filename, and an interrupted one at _temp
OldData == <<"old">>
StaleData == <<"a1">>

\* response bodies as the blocks of r.iter_content, and status codes
Bodies == {<<>>, <<"a1", "a2">>, <<"b1">>}
StatusCodes == {200, 404, 500}
\* status 0: the call sent no request
NoResponse(filename) ==
    [filename |-> filename, status |-> 0, body |-> <<>>, read |-> 0]

\* download_file(url, filename) up to the first block
DlCall(filename) ==
    /\ dl_pc \in {"idle", "returned", "raised"}
    /\ dl_calls < MaxDownloads
    /\ dl_calls' = dl_calls + 1
    /\ IF dl_files[filename].exists
       THEN /\ dl_pc' = "returned"
            /\ dl_response' = NoResponse(filename)
            /\ UNCHANGED dl_files
       ELSE \E status \in StatusCodes, body \in Bodies :
                /\ dl_response' = [filename |-> filename, status |-> status,
                                   body |-> body, read |-> 0]
                /\ IF status # 200
                   THEN dl_pc' = "raised" /\ UNCHANGED dl_files
                   ELSE /\ dl_pc' = "writing"
                        /\ dl_files' = [dl_files EXCEPT ![WritePath(filename)] =
                                           OnDisk(<<>>)]

\* op.write(block)
DlWrite ==
    /\ dl_pc = "writing"
    /\ dl_response.read < Len(dl_response.body)
    /\ dl_response' = [dl_response EXCEPT !.read = @ + 1]
    /\ dl_files' = [dl_files EXCEPT ![WritePath(dl_response.filename)] =
                       OnDisk(Append(@.data, dl_response.body[dl_response.read + 1]))]
    /\ UNCHANGED <<dl_pc, dl_calls>>

\* r.iter_content raises before the body is complete
DlStreamError ==
    /\ dl_pc = "writing"
    /\ dl_response.read < Len(dl_response.body)
    /\ dl_pc' = "raised"
    /\ UNCHANGED <<dl_files, dl_response, dl_calls>>

\* shutil.move(str(filename) + "_temp", str(filename))
DlMove ==
    /\ dl_pc = "writing"
    /\ dl_response.read = Len(dl_response.body)
    /\ LET to == dl_response.filename
           from == WritePath(to)
       IN  dl_files' = IF from = to THEN dl_files
                       ELSE [dl_files EXCEPT ![to] = dl_files[from], ![from] = NoFile]
    /\ dl_pc' = "returned"
    /\ UNCHANGED <<dl_response, dl_calls>>

InitDl ==
    /\ dl_files \in [Filenames \cup {TempName(f) : f \in Filenames}
                        -> {NoFile, OnDisk(OldData), OnDisk(StaleData)}]
    /\ \A f \in Filenames :
          /\ dl_files[f] # OnDisk(StaleData)
          /\ dl_files[TempName(f)] # OnDisk(OldData)
    /\ dl_pc = "idle"
    /\ dl_response = NoResponse("")
    /\ dl_calls = 0
    /\ EnsureIdle
    /\ RunIdle
    /\ PkgIdle
    /\ CtorIdle
    /\ RelIdle
    /\ PortIdle
    /\ PyIdle

NextDl ==
    \/ (\E f \in Filenames : DlCall(f))
          /\ UNCHANGED <<vars, runVars, pkgVars, ctorVars, relVars, portVars, pyVars>>
    \/ DlWrite /\ UNCHANGED <<vars, runVars, pkgVars, ctorVars, relVars, portVars, pyVars>>
    \/ DlStreamError /\ UNCHANGED <<vars, runVars, pkgVars, ctorVars, relVars, portVars, pyVars>>
    \/ DlMove /\ UNCHANGED <<vars, runVars, pkgVars, ctorVars, relVars, portVars, pyVars>>

SpecDl == InitDl /\ [][NextDl]_dlVars

\* ------------------------------------------------------ claims of download_file
\* C20: a file at a final filename changes only by the move of its own
\* download, after every block of the body was written, and then holds the
\* whole body; a call answered with a status other than 200 raises and
\* leaves filename absent; a call that finds filename sends no request and
\* leaves every file as it is.
C20_NoPartialDownload ==
    [][ /\ \A f \in Filenames :
              dl_files'[f] # dl_files[f] =>
                  /\ dl_pc = "writing"
                  /\ dl_response.filename = f
                  /\ dl_response.read = Len(dl_response.body)
                  /\ dl_files'[f] = [exists |-> TRUE, data |-> dl_response.body]
        /\ (dl_calls' # dl_calls /\ dl_response'.status \notin {0, 200}) =>
              /\ dl_pc' = "raised"
              /\ ~dl_files'[dl_response'.filename].exists
        /\ (dl_calls' # dl_calls /\ dl_files[dl_response'.filename].exists) =>
              /\ dl_response'.status = 0
              /\ dl_pc' = "returned"
              /\ dl_files' = dl_files
      ]_dlVars

C20_Witness ==
    /\ dl_calls = 2
    /\ dl_pc = "returned"
    /\ dl_response.status = 200
    /\ dl_files[dl_response.filename] = [exists |-> TRUE, data |-> <<"a1", "a2">>]
    /\ ~dl_files[dl_response.filename \o "_temp"].exists
    /\ \E f \in Filenames :
          /\ ~dl_files[f].exists
          /\ dl_files[f \o "_temp"] = [exists |-> TRUE, data |-> <<"a1">>]

\* ------------------------------------- claims of the constructed Dockerator
ListedAt(p) ==
    {i \in 1..Len(dockerator.strategies) : dockerator.strategies[i] = p}
\* <<p, q>>: p's constructor is given the provider q
References ==
    {<<"DockFill_CodeVenv", "DockFill_Python">>,
     <<"DockFill_GlobalVenv", "DockFill_Python">>,
     <<"DockFill_Rpy2", "DockFill_Python">>,
     <<"DockFill_Rpy2", "DockFill_R">>,
     <<"DockFill_CRAN", "DockFill_R">>,
     <<"DockFill_Bioconductor", "DockFill_R">>}

\* C22: late-bound recipe.  When DockFill_Docker.ensure builds the image,
\* the Dockerfile it writes is the base Dockerfile, then the additional build
\* commands of every provider of the complete strategies list, in list
\* order, then a newline, docker_build_cmds and a newline.
C22_LateBoundRecipe ==
    dockerator.image = "build" =>
        LET all == Strategies(CtorConfig(ctor_call))
            cmds == [i \in 1..Len(all) |->
                        IF all[i] \in ctor_call.with_cmds
                        THEN "RUN " \o all[i] \o "\n" ELSE ""]
        IN  dockerator.dockerfile =
                "FROM " \o ctor_call.docker_image.name \o "-base\n"
                \o Join(cmds, "") \o "\n" \o docker_build_cmds \o "\n"

C22_Witness ==
    /\ dockerator.image = "build"
    /\ ctor_call.with_cmds = {"DockFill_Python", "DockFill_Rpy2"}
    /\ dockerator.dockerfile =
          "FROM anysnake-base\nRUN DockFill_Python\nRUN DockFill_Rpy2\n\n\n"

\* C23: once the constructor has returned, no call changes the path table.
C23_PathsReadOnly ==
    [][dockerator.status = "ok" => dockerator'.paths = dockerator.paths]_ctorVars

\* C24: the strategies list of a constructed Dockerator starts with
\* DockFill_Docker and DockFill_Python, names no provider twice, has
\* DockFill_R, DockFill_Rpy2 and DockFill_CRAN exactly when an R version is
\* given or derived and DockFill_Bioconductor exactly when a Bioconductor
\* version is set, and lists every provider after the providers it was
\* constructed with.
C24_DependencyOrder ==
    dockerator.status = "ok" =>
        /\ dockerator.strategies[1] = "DockFill_Docker"
        /\ dockerator.strategies[2] = "DockFill_Python"
        /\ \A p \in Providers : Cardinality(ListedAt(p)) <= 1
        /\ \A p \in {"DockFill_R", "DockFill_Rpy2", "DockFill_CRAN"} :
              ListedAt(p) # {} <=> ResolvedR(ctor_call) # <<>>
        /\ ListedAt("DockFill_Bioconductor") # {}
              <=> ctor_call.bioconductor_version # None
        /\ \A r \in References :
              ListedAt(r[1]) # {} =>
                  \E j \in ListedAt(r[2]) : \A i \in ListedAt(r[1]) : j < i

C24_Witness ==
    /\ dockerator.status = "ok"
    /\ dockerator.ensure_called
    /\ ~Given(ctor_call.r_version)
    /\ Len(dockerator.strategies) = 8

\* ----------------------------------- further claims of annotate_packages
Https == <<"h", "t", "t", "p", "s">>

\* C26: for every version with prefix hg+https or git+https the recorded url
\* is the version without its "hg+" or "git+" prefix, and so begins with
\* "https".
C26_UrlWithoutPrefix ==
    annotated.status = "ok" =>
        \A i \in 1..Len(annotated.packages) :
            LET e == annotated.packages[i][2]
            IN  /\ StartsWith(e.version, HgPrefix)
                      => (e.url = Drop(e.version, 3) /\ StartsWith(e.url, Https))
                /\ StartsWith(e.version, GitPrefix)
                      => (e.url = Drop(e.version, 4) /\ StartsWith(e.url, Https))

\* C28: annotate_packages leaves its argument as it was, whether it returns
\* or raises: no entry of the caller's parsed_packages gains a method or url
\* or has its version rewritten.
C28_ArgumentUnchanged ==
    [][parsed_packages' = parsed_packages]_pkgVars

\* ------------------------------------- further claims of the floor check
\* C27: the floor check agrees with the numeric ordering of versions: a
\* resolved R version is rejected as not rpy2 compatible exactly when its
\* major number is below 3.
C27_FloorIsNumeric ==
    (dockerator.status # "none" /\ ResolvedR(ctor_call) # <<>>
        /\ ~(dockerator.looked_up /\ ctor_call.lookup_raises))
    => (BelowFloor(ResolvedR(ctor_call))
          <=> (dockerator.status = "raised" /\ dockerator.error = "rpy2"))

\* ======================================================== get_next_free_port
\* if port > start_at + 100
SearchRange == 100
\* host_port = get_next_free_port(8888)
StartPorts == {8888}
\* the largest number of ports in use from start_at upward
MaxInUse == 102

\* the ports other programs hold: a block from start_at upward and, possibly,
\* the port after the first free one
InUseSets(s) ==
    {(s..(s + k - 1)) \cup (IF further THEN {s + k + 1} ELSE {}) :
        k \in 0..MaxInUse, further \in BOOLEAN}

\* mutant: every bind succeeds
CanBind_Always(p) == TRUE
\* s.bind(("localhost", port)) does not raise socket.error
CanBind(p) == p \notin in_use

\* one turn of the loop in which bind succeeds: try_next = False, the range
\* check, then the loop ends and port is returned
BindOk ==
    /\ port_pc = "loop" /\ try_next
    /\ CanBind(port)
    /\ probed' = Append(probed, port)
    /\ try_next' = FALSE
    /\ port_pc' = IF port > start_at + SearchRange THEN "raised" ELSE "returned"
    /\ UNCHANGED <<start_at, in_use, port>>

\* one turn of the loop in which bind raises socket.error: port += 1, then
\* the range check
BindFails ==
    /\ port_pc = "loop" /\ try_next
    /\ ~CanBind(port)
    /\ probed' = Append(probed, port)
    /\ port' = port + 1
    /\ port_pc' = IF port' > start_at + SearchRange THEN "raised" ELSE "loop"
    /\ UNCHANGED <<start_at, in_use, try_next>>

InitPort ==
    /\ start_at \in StartPorts
    /\ in_use \in InUseSets(start_at)
    /\ port = start_at
    /\ try_next = TRUE
    /\ port_pc = "loop"
    /\ probed = <<>>
    /\ EnsureIdle
    /\ RunIdle
    /\ PkgIdle
    /\ CtorIdle
    /\ RelIdle
    /\ DlIdle
    /\ PyIdle

NextPort ==
    \/ BindOk /\ UNCHANGED <<vars, runVars, pkgVars, ctorVars, relVars, dlVars, pyVars>>
    \/ BindFails /\ UNCHANGED <<vars, runVars, pkgVars, ctorVars, relVars, dlVars, pyVars>>

\* the loop is sequential code: a turn that can be taken is taken
SpecPort == InitPort /\ [][NextPort]_portVars /\ WF_portVars(NextPort)

\* ------------------------------------------------ claims of get_next_free_port
\* the search over a window of n candidates start_at .. start_at + n - 1:
\* the candidates are tried one after the other upward from start_at, a
\* returned port is in the window, free, and every lower candidate is in
\* use, and the call raises only when the whole window is in use
PortSearch(n) ==
    LET window == start_at..(start_at + n - 1)
    IN  /\ \A i \in 1..Len(probed) : probed[i] = start_at + i - 1
        /\ Len(probed) <= n
        /\ port_pc = "returned" =>
              /\ port \in window
              /\ port \notin in_use
              /\ \A q \in start_at..(port - 1) : q \in in_use
              /\ probed[Len(probed)] = port
        /\ port_pc = "raised" => window \subseteq in_use

\* C25 as stated: the search as above over a window of 100 ports.
C25_Window100 == PortSearch(SearchRange)

\* C25: get_next_free_port tries the ports start_at, start_at + 1, ... in
\* order, returns the first it can bind, which is the lowest free port of
\* start_at .. start_at + 100, raises exactly when all of these 101 ports
\* are in use, and always ends.
C25_PortSearch ==
    /\ [](PortSearch(SearchRange + 1)
            /\ (port_pc = "loop" => Len(probed) <= SearchRange))
    /\ <>(port_pc \in {"returned", "raised"})

C25_Witness ==
    /\ port_pc = "returned"
    /\ port = start_at + SearchRange
    /\ Len(probed) = SearchRange + 1
    /\ start_at + SearchRange + 1 \in in_use

\* =============================================== Dockerator.major_python_version
PyChars == {"3", "7", "."}
\* the longest python_version
MaxPyLen == 4
PyVersions == UNION {[1..n -> PyChars] : n \in 0..MaxPyLen}

\* str.count
Count(p, ch) == Cardinality({i \in 1..Len(p) : p[i] = ch})
\* str.rfind, 0-based, -1 if absent
RFind(p, ch) ==
    IF Count(p, ch) = 0 THEN -1
    ELSE (CHOOSE i \in 1..Len(p) :
              p[i] = ch /\ \A j \in (i + 1)..Len(p) : p[j] # ch) - 1

NoMajor == [status |-> "none", value |-> <<>>, error |-> "none"]

\* the property; in the last branch the message's f-string reads
\* self.dockerator, an attribute Dockerator does not have, before ValueError
\* is constructed
MajorPythonVersion ==
    /\ major_version = NoMajor
    /\ LET p == python_version
       IN  major_version' =
             IF Count(p, ".") = 2
             THEN [NoMajor EXCEPT !.status = "returned",
                                  !.value = SubSeq(p, 1, RFind(p, "."))]
             ELSE IF Count(p, ".") = 1
             THEN [NoMajor EXCEPT !.status = "returned", !.value = p]
             ELSE [NoMajor EXCEPT !.status = "raised", !.error = "AttributeError"]
    /\ UNCHANGED python_version

InitPy ==
    /\ python_version \in PyVersions
    /\ major_version = NoMajor
    /\ EnsureIdle
    /\ RunIdle
    /\ PkgIdle
    /\ CtorIdle
    /\ RelIdle
    /\ DlIdle
    /\ PortIdle

NextPy ==
    MajorPythonVersion
        /\ UNCHANGED <<vars, runVars, pkgVars, ctorVars, relVars, dlVars, portVars>>

SpecPy == InitPy /\ [][NextPy]_pyVars

\* ------------------------------------------ claims of major_python_version
Dots(p) == {i \in 1..Len(p) : p[i] = "."}

\* C29: major_python_version returns python_version as it is when it has
\* exactly one dot, returns it without its last dot and what follows when it
\* has exactly two dots, and raises ValueError for every other string.
C29_MajorOrValueError ==
    major_version.status # "none" =>
        LET p == python_version
            n == Cardinality(Dots(p))
        IN  /\ n = 1 => (major_version.status = "returned"
                            /\ major_version.value = p)
            /\ n = 2 =>
                  /\ major_version.status = "returned"
                  /\ \E i \in Dots(p) :
                        /\ \A j \in Dots(p) : j <= i
                        /\ major_version.value = SubSeq(p, 1, i - 1)
            /\ n \notin {1, 2} => (major_version.status = "raised"
                                      /\ major_version.error = "ValueError")

====
